---- MODULE Spec2Model ----
(***************************************************************************)
(* Model of the GCP Secret Manager ConfigProvider layers                   *)
(* (src/gcp-secret-manager/layers.ts, GcpSecretManager.ts, secret-map.ts). *)
(*                                                                         *)
(* One layer at a time is built, used and torn down:                       *)
(*   layerGcp* (construct)  ->  acquire client  ->  fromSecretManager      *)
(*   (fan-out getSecret, fan-in, merge onto SecretMap, fromMap)  ->        *)
(*   provider installed, lookups  ->  scope closes, client released.       *)
(* The process-wide default of the SecretMap reference survives from one   *)
(* layer to the next.                                                      *)
(***************************************************************************)
EXTENDS Integers, Sequences, FiniteSets, TLC

\* ---------------------------------------------------------------- bounds
NumNames == 2        \* secret names / config keys are 1..NumNames
NumValues == 2       \* secret, seed, env and json values are 1..NumValues
MaxSecrets == 2      \* longest input.secrets list
MaxLayers == 2       \* layers built one after the other in one process
MaxJsonEvaluations == 2  \* evaluations of ConfigProvider.fromJson(json) followed per layer

Names == 1..NumNames
Values == 1..NumValues

\* ------------------------------------------------------------ small maps
\* A JS Map / HashMap / record of strings: a function on a subset of Names.
EmptyMap == [k \in {} |-> 0]

Maps == UNION {[D -> Values] : D \in SUBSET Names}

MapHas(m, k) == k \in DOMAIN m

MapSet(m, k, v) == [x \in (DOMAIN m) \cup {k} |-> IF x = k THEN v ELSE m[x]]

\* ------------------------------------------------------------- Option
None == [tag |-> "None", value |-> 0]

Some(v) == [tag |-> "Some", value |-> v]

Options == {None} \cup {Some(v) : v \in Values}

\* -------------------------------------------------------- SecretInput
StringInputs == [kind : {"string"}, name : Names]

\* An object whose two names are equal behaves as the bare string does and is left out.
ObjectInputs ==
    {s \in [kind : {"object"}, nameInSecretManager : Names, nameInConfig : Names] :
        s.nameInSecretManager # s.nameInConfig}

SecretInputs == StringInputs \cup ObjectInputs

SecretLists == UNION {[1..n -> SecretInputs] : n \in 0..MaxSecrets}

\* Variant: the config key is taken from the name used in Secret Manager.
nameInConfigIsSecretName(secretInput) ==
    IF secretInput.kind = "string" THEN secretInput.name ELSE secretInput.nameInSecretManager

nameInConfig(secretInput) ==
    IF secretInput.kind = "string" THEN secretInput.name ELSE secretInput.nameInConfig

nameInSecretManager(secretInput) ==
    IF secretInput.kind = "string" THEN secretInput.name ELSE secretInput.nameInSecretManager

\* ------------------------------------------- GcpSecretManager.getSecret
\* What accessSecretVersion answers for the requested name: the promise
\* rejects (secret not found, remote error), or resolves to a version with
\* no payload data, or resolves to a version whose payload text is data.
NoReply == [kind |-> "none", data |-> 0]

Replies ==
    [kind : {"NotFound", "RemoteError", "NoPayload"}, data : {0}]
        \cup [kind : {"Data"}, data : Values]

\* How an effect ends: with a value, or with a failure in its error channel.
Succeed(v) == [ok |-> TRUE, error |-> "", value |-> v]

Fail(e) == [ok |-> FALSE, error |-> e, value |-> 0]

\* Effect.tryPromise fails with UnknownException on rejection;
\* Option.fromNullable(undefined) fails with NoSuchElementException.
getSecret(reply) ==
    IF reply.kind \in {"NotFound", "RemoteError"}
    THEN Fail("UnknownException")
    ELSE IF reply.kind = "NoPayload"
         THEN Fail("NoSuchElementException")
         ELSE Succeed(reply.data)

\* Variant: only the success is wrapped, a failure stays a failure.
EffectOptionKeepsFailure(effect) ==
    IF effect.ok THEN Succeed(Some(effect.value)) ELSE effect

\* Effect.option: succeeds with None where the effect fails, with Some where it succeeds.
EffectOption(effect) ==
    IF effect.ok THEN Succeed(Some(effect.value)) ELSE Succeed(None)

\* const secretResult = yield* Effect.option(gcpSecretManager.getSecret(nameInSecretManager))
secretResult(reply) == EffectOption(getSecret(reply))

VARIABLES
    pc,            \* where the current layer is in its life
    variant,       \* which of the three layer functions built it
    secrets,       \* input.secrets
    seedRef,       \* "default": SecretMap's default value; "override": a Map the caller provided
    overrideSeed,  \* the caller's Map (contents)
    defaultSeed,   \* the Map cached as the default value of the SecretMap reference
    fetches,       \* one record per element of input.secrets
    seedAtMerge,   \* contents of the seed Map when the reduce started
    providerMap,   \* the entries held by ConfigProvider.fromMap's provider
    installed,     \* TRUE once Layer.setConfigProvider has the provider
    opened,        \* number of SecretManagerServiceClient constructed for this layer
    closed,        \* number of client.close() calls for this layer
    exit,          \* how the layer's scope ended
    lastLookup,    \* the last Config lookup made against the installed provider
    layers,        \* layers built so far
    settleOrder,   \* the elements of input.secrets in the order their fetches settled
    jsonDoc,       \* what the caller passed as json to layerGcpWithJsonFallback
    jsonEvaluated  \* how often ConfigProvider.fromJson(json) was evaluated for this layer

vars == <<pc, variant, secrets, seedRef, overrideSeed, defaultSeed, fetches,
          seedAtMerge, providerMap, installed, opened, closed, exit, lastLookup, layers, settleOrder,
          jsonDoc, jsonEvaluated>>

NoLookup == [key |-> 0, fallback |-> None, found |-> FALSE, value |-> 0, consulted |-> {}]

\* status is the state of the fiber of forEach, request that of the
\* accessSecretVersion call it made on the client, calls the number of times
\* getSecret was invoked for the element.
IdleFetch == [status |-> "idle", name |-> 0, reply |-> NoReply, request |-> "none",
              calls |-> 0]

\* secret-map.ts: defaultValue: () => new Map<string, string>()
SecretMapDefaultValue == EmptyMap

Init ==
    /\ pc = "none"
    /\ variant = "none"
    /\ secrets = <<>>
    /\ seedRef = "default"
    /\ overrideSeed = EmptyMap
    /\ defaultSeed = SecretMapDefaultValue
    /\ fetches = <<>>
    /\ seedAtMerge = EmptyMap
    /\ providerMap = EmptyMap
    /\ installed = FALSE
    /\ opened = 0
    /\ closed = 0
    /\ exit = "none"
    /\ lastLookup = NoLookup
    /\ layers = 0
    /\ settleOrder = <<>>
    /\ jsonDoc = "none"
    /\ jsonEvaluated = 0

\* ------------------------------------------------ HashMap operations
\* HashMap.fromIterable: entries are inserted in iteration order, so a later
\* entry replaces an earlier one with the same key.
RECURSIVE HashMapFromIterable(_)
HashMapFromIterable(entries) ==
    IF entries = <<>>
    THEN EmptyMap
    ELSE LET n == Len(entries)
         IN MapSet(HashMapFromIterable(SubSeq(entries, 1, n - 1)),
                   entries[n].key, entries[n].value)

\* HashMap.compact: drops the None values and unwraps the Some values.
HashMapCompact(hm) ==
    [k \in {x \in DOMAIN hm : hm[x].tag = "Some"} |-> hm[k].value]

\* Variant: an entry the Map already holds is not replaced.
RECURSIVE HashMapReduceKeepsExisting(_, _)
HashMapReduceKeepsExisting(map, hm) ==
    IF DOMAIN hm = {}
    THEN map
    ELSE LET key == CHOOSE k \in DOMAIN hm : TRUE
             rest == [k \in (DOMAIN hm) \ {key} |-> hm[k]]
         IN HashMapReduceKeepsExisting(
                IF MapHas(map, key) THEN map ELSE MapSet(map, key, hm[key]), rest)

\* HashMap.reduce(zero, f) with f = (map, value, key) => { map.set(key, value); return map }
RECURSIVE HashMapReduce(_, _)
HashMapReduce(map, hm) ==
    IF DOMAIN hm = {}
    THEN map
    ELSE LET key == CHOOSE k \in DOMAIN hm : TRUE
             rest == [k \in (DOMAIN hm) \ {key} |-> hm[k]]
         IN HashMapReduce(MapSet(map, key, hm[key]), rest)

\* --------------------------------------------------- ConfigProvider
Missing(source) == [found |-> FALSE, value |-> 0, consulted |-> {source}]

Found(source, v) == [found |-> TRUE, value |-> v, consulted |-> {source}]

\* ConfigProvider.fromMap(map).load of a string config named k
fromMap(map, k) == IF MapHas(map, k) THEN Found("map", map[k]) ELSE Missing("map")

\* Variant: the environment is never found to hold the name.
fromEnvNeverSet(held) == Missing("env")

\* ConfigProvider.fromEnv().load: held is what process.env holds for the name
\* at the time of the lookup (None: the variable is not set).
fromEnv(held) == IF held.tag = "Some" THEN Found("env", held.value) ELSE Missing("env")

\* ConfigProvider.fromJson(json).load: held is what the caller's json object
\* holds for the name when the thunk given to orElse is run, that is at the
\* time of the lookup.
fromJson(held) == IF held.tag = "Some" THEN Found("json", held.value) ELSE Missing("json")

\* Variant: that is tried first.
orElseThatFirst(self, that) ==
    IF that.found
    THEN that
    ELSE [found |-> self.found, value |-> self.value,
          consulted |-> self.consulted \cup that.consulted]

\* ConfigProvider.orElse(self, that): that is loaded only when self fails,
\* and its failure is then the one reported.
orElse(self, that) ==
    IF self.found
    THEN self
    ELSE [found |-> that.found, value |-> that.value,
          consulted |-> self.consulted \cup that.consulted]

\* Variant: layerGcp too leaves the environment behind the secrets.
providerLoadEnvBehindAll(v, map, held, k) ==
    CASE v = "SecretsOnly" -> orElse(fromMap(map, k), fromEnv(held))
      [] v = "WithEnvFallback" -> orElse(fromMap(map, k), fromEnv(held))
      [] v = "WithJsonFallback" -> orElse(fromMap(map, k), fromJson(held))

\* The provider each layer function hands to Layer.setConfigProvider.
providerLoad(v, map, held, k) ==
    CASE v = "SecretsOnly" -> fromMap(map, k)
      [] v = "WithEnvFallback" -> orElse(fromMap(map, k), fromEnv(held))
      [] v = "WithJsonFallback" -> orElse(fromMap(map, k), fromJson(held))

\* ---------------------------------------------------------- actions
\* A layer function is called and the layer it returns is provided to a
\* program: input and the SecretMap found in the context (the default, or a
\* Map the caller provided) are fixed here.
NoLayerInUse == pc \in {"none", "closed", "openFailed"} /\ layers < MaxLayers

Construct(v, input, ref, seed, doc) ==
    /\ pc' = "acquire"
    /\ variant' = v
    /\ secrets' = input
    /\ seedRef' = ref
    /\ overrideSeed' = seed
    /\ fetches' = <<>>
    /\ seedAtMerge' = EmptyMap
    /\ providerMap' = EmptyMap
    /\ installed' = FALSE
    /\ opened' = 0
    /\ closed' = 0
    /\ exit' = "none"
    /\ lastLookup' = NoLookup
    /\ layers' = layers + 1
    /\ settleOrder' = <<>>
    /\ jsonDoc' = doc
    /\ jsonEvaluated' = 0
    /\ UNCHANGED defaultSeed

\* The SecretMap in the context: the reference's default, or a Map of the caller.
SeedChoices == {<<"default", EmptyMap>>} \cup {<<"override", seed>> : seed \in Maps}

\* json is typed unknown: the caller may pass an object whose properties are
\* the config names ("structured") or anything else, such as the text of a
\* document ("malformed").
JsonDocs == {"structured", "malformed"}

layerGcp ==
    /\ NoLayerInUse
    /\ \E input \in SecretLists, seed \in SeedChoices :
          Construct("SecretsOnly", input, seed[1], seed[2], "none")

layerGcpWithEnvFallback ==
    /\ NoLayerInUse
    /\ \E input \in SecretLists, seed \in SeedChoices :
          Construct("WithEnvFallback", input, seed[1], seed[2], "none")

layerGcpWithJsonFallback ==
    /\ NoLayerInUse
    /\ \E input \in SecretLists, seed \in SeedChoices, doc \in JsonDocs :
          Construct("WithJsonFallback", input, seed[1], seed[2], doc)

\* Effect.acquireRelease(Effect.sync(() => new SecretManagerServiceClient()), close):
\* the constructor returns and the finalizer is registered in the layer's scope.
AcquireClient ==
    /\ pc = "acquire"
    /\ opened' = opened + 1
    /\ fetches' = [i \in 1..Len(secrets) |-> IdleFetch]
    /\ pc' = "fetching"
    /\ UNCHANGED <<variant, secrets, seedRef, overrideSeed, defaultSeed, seedAtMerge,
                   providerMap, installed, closed, exit, lastLookup, layers, settleOrder, jsonDoc, jsonEvaluated>>

\* Variant: the release of acquireRelease runs although the acquire failed.
AcquireClientFailsThenCloses ==
    /\ pc = "acquire"
    /\ pc' = "openFailed"
    /\ exit' = "openFailed"
    /\ closed' = closed + 1
    /\ UNCHANGED <<variant, secrets, seedRef, overrideSeed, defaultSeed, fetches,
                   seedAtMerge, providerMap, installed, opened, lastLookup, layers, settleOrder, jsonDoc, jsonEvaluated>>

\* The constructor throws: nothing was acquired, so no finalizer exists.
AcquireClientFails ==
    /\ pc = "acquire"
    /\ pc' = "openFailed"
    /\ exit' = "openFailed"
    /\ UNCHANGED <<variant, secrets, seedRef, overrideSeed, defaultSeed, fetches,
                   seedAtMerge, providerMap, installed, opened, closed, lastLookup, layers, settleOrder, jsonDoc, jsonEvaluated>>

\* Effect.forEach(..., { concurrency: "unbounded" }) forks one fiber per element,
\* in order; the fiber of element i calls getSecret(nameInSecretManager).
IssueFetch(i) ==
    /\ pc = "fetching"
    /\ fetches[i].status = "idle"
    /\ \A j \in 1..(i - 1) : fetches[j].status # "idle"
    /\ fetches' = [fetches EXCEPT ![i] =
                      [status |-> "inflight", name |-> nameInSecretManager(secrets[i]),
                       reply |-> NoReply, request |-> "outstanding",
                       calls |-> fetches[i].calls + 1]]
    /\ UNCHANGED <<pc, variant, secrets, seedRef, overrideSeed, defaultSeed, seedAtMerge,
                   providerMap, installed, opened, closed, exit, lastLookup, layers, settleOrder, jsonDoc, jsonEvaluated>>

\* Variant: giving up the build leaves the fibers of forEach running.
AbandonedKeepsFiber(fetch) ==
    [IdleFetch EXCEPT !.status = fetch.status, !.request = fetch.request,
                      !.calls = fetch.calls]

\* What is left of a fetch once the build of the layer was given up: a fiber
\* that was waiting for its reply is interrupted. The callback handed to
\* Effect.tryPromise takes no AbortSignal, so the request it made stays as it is.
Abandoned(fetch) ==
    [IdleFetch EXCEPT !.status = IF fetch.status = "inflight" THEN "cancelled"
                                 ELSE fetch.status,
                      !.request = fetch.request,
                      !.calls = fetch.calls]

\* Variant: a fetch that did not yield data is issued once more.
SettleFetchRetries(i, reply) ==
    /\ pc = "fetching"
    /\ fetches[i].status = "inflight"
    /\ IF reply.kind # "Data" /\ fetches[i].calls < 2
       THEN /\ fetches' = [fetches EXCEPT ![i].status = "idle", ![i].request = "none"]
            /\ UNCHANGED settleOrder
       ELSE /\ fetches' = [fetches EXCEPT ![i].status = "settled", ![i].reply = reply,
                                         ![i].request = "answered"]
            /\ settleOrder' = Append(settleOrder, i)
    /\ UNCHANGED <<pc, variant, secrets, seedRef, overrideSeed, defaultSeed, seedAtMerge,
                   providerMap, installed, opened, closed, exit, lastLookup, layers,
                   jsonDoc, jsonEvaluated>>

\* accessSecretVersion answers the request of element i and the fiber of element
\* i ends. Were the fiber to end in failure, forEach would interrupt the other
\* fibers and fail, and with it fromSecretManager and the build of the layer,
\* whose scope then closes and releases the client.
SettleFetch(i, reply) ==
    /\ pc = "fetching"
    /\ fetches[i].status = "inflight"
    /\ IF secretResult(reply).ok
       THEN /\ fetches' = [fetches EXCEPT ![i].status = "settled", ![i].reply = reply,
                                         ![i].request = "answered"]
            /\ settleOrder' = Append(settleOrder, i)
            /\ UNCHANGED <<pc, secrets, closed, exit>>
       ELSE /\ fetches' = [j \in 1..Len(fetches) |->
                              IF j = i
                              THEN [IdleFetch EXCEPT !.status = "failed",
                                                     !.request = "answered",
                                                     !.calls = fetches[i].calls]
                              ELSE Abandoned(fetches[j])]
            /\ settleOrder' = <<>>
            /\ secrets' = <<>>
            /\ closed' = closed + 1
            /\ exit' = "buildFailed"
            /\ pc' = "closed"
    /\ UNCHANGED <<variant, seedRef, overrideSeed, defaultSeed, seedAtMerge,
                   providerMap, installed, opened, lastLookup, layers, jsonDoc, jsonEvaluated>>

\* Variant: forEach hands over as soon as one fiber is done.
FirstSettled ==
    fetches = <<>> \/ \E i \in 1..Len(fetches) : fetches[i].status = "settled"

\* forEach hands over its results only when every fiber is done.
AllSettled == \A i \in 1..Len(fetches) : fetches[i].status = "settled"

\* Variant: the results are handed over in the order the fetches settled.
EntriesInSettleOrder ==
    [n \in 1..Len(settleOrder) |->
        [key |-> nameInConfig(secrets[settleOrder[n]]),
         value |-> secretResult(fetches[settleOrder[n]].reply).value]]

\* [nameInConfig, secretResult] of every element, in the order of input.secrets
Entries ==
    [i \in 1..Len(secrets) |->
        [key |-> nameInConfig(secrets[i]), value |-> secretResult(fetches[i].reply).value]]

CurrentSeed == IF seedRef = "default" THEN defaultSeed ELSE overrideSeed

\* Variant: the fetched entries alone, not merged onto the seed.
secretMapWithoutSeed == HashMapCompact(HashMapFromIterable(Entries))

\* fromIterable, compact, reduce onto the Map read from SecretMap
secretMapForConfigProvider ==
    HashMapReduce(CurrentSeed, HashMapCompact(HashMapFromIterable(Entries)))

\* The rest of fromSecretManager once forEach is done: the reduce writes into the
\* seed Map itself, and ConfigProvider.fromMap copies the entries of the Map it
\* is given into the provider it returns.
fromSecretManager ==
    /\ pc = "fetching"
    /\ AllSettled
    /\ seedAtMerge' = CurrentSeed
    /\ IF seedRef = "default"
       THEN defaultSeed' = secretMapForConfigProvider /\ UNCHANGED overrideSeed
       ELSE overrideSeed' = secretMapForConfigProvider /\ UNCHANGED defaultSeed
    /\ providerMap' = secretMapForConfigProvider
    /\ pc' = "returned"
    /\ UNCHANGED <<variant, secrets, seedRef, fetches, installed, opened, closed, exit,
                   lastLookup, layers, settleOrder, jsonDoc, jsonEvaluated>>


\* Variant: the json source is built when the provider is composed.
SetConfigProviderBuildsJsonSource ==
    /\ pc = "returned"
    /\ installed' = TRUE
    /\ pc' = "installed"
    /\ secrets' = <<>>
    /\ fetches' = <<>>
    /\ seedAtMerge' = EmptyMap
    /\ settleOrder' = <<>>
    /\ jsonEvaluated' = IF variant = "WithJsonFallback" THEN 1 ELSE 0
    /\ UNCHANGED <<variant, seedRef, overrideSeed, defaultSeed, providerMap, opened, closed,
                   exit, lastLookup, layers, jsonDoc>>

\* Effect.map(Layer.setConfigProvider) and Layer.unwrapScoped: the layer is built
\* and the provider (for the fallback variants, wrapped by ConfigProvider.orElse)
\* is the one Config reads from. The locals of fromSecretManager are gone.
SetConfigProvider ==
    /\ pc = "returned"
    /\ installed' = TRUE
    /\ pc' = "installed"
    /\ secrets' = <<>>
    /\ fetches' = <<>>
    /\ seedAtMerge' = EmptyMap
    /\ settleOrder' = <<>>
    /\ UNCHANGED <<variant, seedRef, overrideSeed, defaultSeed, providerMap, opened, closed,
                   exit, lastLookup, layers, jsonDoc, jsonEvaluated>>

\* Variant: the provider reads the Map it was given, which is the seed.
fromMapKeepsMap == CurrentSeed

\* ConfigProvider.fromMap(map): the provider holds the entries the Map had when
\* fromSecretManager returned.
fromMapEntries == providerMap

\* Another call of a layer function in the same process, with the default
\* SecretMap, gets to its reduce while this layer's provider is installed: it
\* writes what it fetched (hm) into the Map the reference caches.
OtherLayerMerges(hm) ==
    /\ pc = "installed"
    /\ layers < MaxLayers
    /\ layers' = layers + 1
    /\ defaultSeed' = HashMapReduce(defaultSeed, hm)
    /\ UNCHANGED <<pc, variant, secrets, seedRef, overrideSeed, fetches, seedAtMerge,
                   providerMap, installed, opened, closed, exit, lastLookup, settleOrder,
                   jsonDoc, jsonEvaluated>>

\* The program reads a string config named k through the installed provider.
\* held: what the fallback source of this variant (process.env, the json object)
\* holds for k at that moment; for layerGcp, what process.env holds.
\* The thunk given to orElse is run by each lookup that consults the fallback
\* provider; for layerGcpWithJsonFallback it evaluates fromJson(json), which
\* has no property named k to offer when json is not such an object.
Lookup(k, held) ==
    /\ pc = "installed"
    /\ LET h == IF jsonDoc = "malformed" THEN None ELSE held
           r == providerLoad(variant, fromMapEntries, h, k)
           n == IF "json" \in r.consulted THEN jsonEvaluated + 1 ELSE jsonEvaluated
       IN /\ n <= MaxJsonEvaluations
          /\ jsonEvaluated' = n
          /\ lastLookup' = [key |-> k, fallback |-> h, found |-> r.found,
                            value |-> r.value, consulted |-> r.consulted]
    /\ UNCHANGED <<pc, variant, secrets, seedRef, overrideSeed, defaultSeed, fetches,
                   seedAtMerge, providerMap, installed, opened, closed, exit, layers,
                   settleOrder, jsonDoc>>

\* Variant: close() is called at the end of the program's normal path only.
ScopeCloseOnSuccessOnly(how) ==
    /\ pc = "installed"
    /\ closed' = IF how = "normal" THEN closed + 1 ELSE closed
    /\ installed' = FALSE
    /\ exit' = how
    /\ pc' = "closed"
    /\ lastLookup' = NoLookup
    /\ providerMap' = EmptyMap
    /\ jsonDoc' = "none"
    /\ jsonEvaluated' = 0
    /\ UNCHANGED <<variant, secrets, seedRef, overrideSeed, defaultSeed, fetches,
                   seedAtMerge, opened, layers, settleOrder>>

\* The scope of the layer closes after the program ended (how = "normal") or
\* failed (how = "error"): the finalizer of acquireRelease calls client.close().
ScopeClose(how) ==
    /\ pc = "installed"
    /\ closed' = closed + 1
    /\ installed' = FALSE
    /\ exit' = how
    /\ pc' = "closed"
    /\ lastLookup' = NoLookup
    /\ providerMap' = EmptyMap
    /\ jsonDoc' = "none"
    /\ jsonEvaluated' = 0
    /\ UNCHANGED <<variant, secrets, seedRef, overrideSeed, defaultSeed, fetches,
                   seedAtMerge, opened, layers, settleOrder>>

\* The scope is interrupted while the layer is being built: the fibers of
\* forEach are interrupted, fromSecretManager does not return, the finalizer runs.
Interrupt ==
    /\ pc = "fetching"
    /\ fetches' = [i \in 1..Len(fetches) |-> Abandoned(fetches[i])]
    /\ secrets' = <<>>
    /\ closed' = closed + 1
    /\ exit' = "interrupt"
    /\ pc' = "closed"
    /\ settleOrder' = <<>>
    /\ jsonDoc' = "none"
    /\ UNCHANGED <<variant, seedRef, overrideSeed, defaultSeed, seedAtMerge,
                   providerMap, installed, opened, lastLookup, layers, jsonEvaluated>>

Next ==
    \/ layerGcp
    \/ layerGcpWithEnvFallback
    \/ layerGcpWithJsonFallback
    \/ AcquireClient
    \/ AcquireClientFails
    \/ \E i \in 1..Len(fetches) : IssueFetch(i)
    \/ \E i \in 1..Len(fetches), reply \in Replies : SettleFetch(i, reply)
    \/ fromSecretManager
    \/ SetConfigProvider
    \/ \E k \in Names, held \in Options : Lookup(k, held)
    \/ \E hm \in Maps \ {EmptyMap} : OtherLayerMerges(hm)
    \/ \E how \in {"normal", "error"} : ScopeClose(how)
    \/ Interrupt

Spec == Init /\ [][Next]_vars

\* ------------------------------------------------------------ claims
\* The entry a Map holds for a name.
EntryOf(m, k) == IF k \in DOMAIN m THEN Some(m[k]) ELSE None

\* Element i of input.secrets was answered with payload data.
Fetched(i) == fetches[i].reply.kind = "Data"

\* The config key element i of input.secrets asks for.
KeyOf(i) == IF secrets[i].kind = "string" THEN secrets[i].name ELSE secrets[i].nameInConfig

\* C1: for a non-empty input.secrets and any mix of answers (data, not found,
\* no payload, remote error) the build never fails on a fetch and
\* fromSecretManager returns a map; an element whose fetch failed adds no entry
\* (its key holds what the seed held unless another element fetched it), and
\* when every fetch failed the map is the seed's.
C1_AggregationToleratesFetchFailures ==
    /\ exit # "buildFailed"
    /\ (pc = "returned" /\ secrets # <<>>) =>
          /\ providerMap \in Maps
          /\ \A i \in 1..Len(secrets) :
                (/\ ~Fetched(i)
                 /\ ~\E j \in 1..Len(secrets) : KeyOf(j) = KeyOf(i) /\ Fetched(j))
                    => EntryOf(providerMap, KeyOf(i)) = EntryOf(seedAtMerge, KeyOf(i))
          /\ (\A i \in 1..Len(secrets) : ~Fetched(i)) => providerMap = seedAtMerge

C1_Witness ==
    /\ pc = "returned"
    /\ Len(secrets) = 2
    /\ fetches[1].reply.kind = "NoPayload"
    /\ fetches[2].reply.kind = "Data"
    /\ KeyOf(1) # KeyOf(2)
    /\ KeyOf(1) \notin DOMAIN providerMap
    /\ KeyOf(2) \in DOMAIN providerMap

\* C2: whenever the client was opened, after the layer's scope has ended
\* (program ended, program failed, build interrupted) close() was called
\* exactly once; it is never called twice.
C2_ClientClosedExactlyOnce ==
    /\ closed <= 1
    /\ closed <= opened
    /\ (pc = "closed" /\ opened > 0) => closed = 1

C2_Witness == pc = "closed" /\ exit = "error" /\ opened = 1 /\ closed = 1

\* C3: fromSecretManager has returned only with every fetch of input.secrets
\* settled, and while fetches are outstanding no provider exists.
C3_NoReturnBeforeAllSettled ==
    /\ pc = "returned" =>
          /\ Len(fetches) = Len(secrets)
          /\ \A i \in 1..Len(fetches) : fetches[i].status = "settled"
    /\ pc = "fetching" => ~installed /\ providerMap = EmptyMap
    /\ installed => pc = "installed"

C3_Witness ==
    /\ pc = "returned"
    /\ Len(fetches) = 2
    /\ fetches[1].status = "settled" /\ fetches[1].reply.kind = "RemoteError"
    /\ fetches[2].status = "settled" /\ fetches[2].reply.kind = "Data"

\* A lookup has been made against the installed provider.
LookedUp == pc = "installed" /\ lastLookup.key \in Names

\* C4: with either fallback provider, a lookup of a key that the secret map
\* holds (value A) and the fallback source holds too (value B) returns A.
C4_SecretsBeforeFallback ==
    (/\ LookedUp
     /\ variant \in {"WithEnvFallback", "WithJsonFallback"}
     /\ lastLookup.key \in DOMAIN providerMap
     /\ lastLookup.fallback.tag = "Some")
        => lastLookup.found /\ lastLookup.value = providerMap[lastLookup.key]

C4_Witness ==
    /\ LookedUp
    /\ variant = "WithJsonFallback"
    /\ lastLookup.key \in DOMAIN providerMap
    /\ lastLookup.fallback.tag = "Some"
    /\ lastLookup.fallback.value # providerMap[lastLookup.key]
    /\ lastLookup.value = providerMap[lastLookup.key]

\* C5: with the environment fallback, a lookup of a key the secret map does not
\* hold returns v when the environment holds k=v and reports not-found when the
\* environment does not hold k.
C5_EnvFallbackForAbsentKeys ==
    (/\ LookedUp
     /\ variant = "WithEnvFallback"
     /\ lastLookup.key \notin DOMAIN providerMap)
        => IF lastLookup.fallback.tag = "Some"
           THEN lastLookup.found /\ lastLookup.value = lastLookup.fallback.value
           ELSE ~lastLookup.found

C5_Witness ==
    /\ LookedUp
    /\ variant = "WithEnvFallback"
    /\ lastLookup.key \notin DOMAIN providerMap
    /\ lastLookup.fallback.tag = "Some"
    /\ lastLookup.found
    /\ lastLookup.value = lastLookup.fallback.value

\* C6: with the secrets-only provider, a lookup of a key of the map returns the
\* map's value, a lookup of any other key reports not-found, and nothing but
\* the map is consulted, whatever the environment holds.
C6_SecretsOnlyLookup ==
    (LookedUp /\ variant = "SecretsOnly")
        => /\ lastLookup.consulted = {"map"}
           /\ IF lastLookup.key \in DOMAIN providerMap
              THEN lastLookup.found /\ lastLookup.value = providerMap[lastLookup.key]
              ELSE ~lastLookup.found

C6_Witness ==
    /\ LookedUp
    /\ variant = "SecretsOnly"
    /\ lastLookup.key \notin DOMAIN providerMap
    /\ lastLookup.fallback.tag = "Some"
    /\ ~lastLookup.found

\* C7: the aggregation leaves the seed Map as it found it, the default seed
\* stays empty, and with the default seed the returned map holds only keys
\* fetched by this invocation.
C7_SeedNotModified ==
    /\ defaultSeed = SecretMapDefaultValue
    /\ pc = "returned" => CurrentSeed = seedAtMerge
    /\ (pc = "returned" /\ seedRef = "default") =>
          \A k \in DOMAIN providerMap :
              \E i \in 1..Len(secrets) : KeyOf(i) = k /\ Fetched(i)

\* The fetch result F: key k is in F when the last element of input.secrets
\* asking for k was fetched, and F maps k to that element's data. With pairwise
\* distinct config keys, F is the set of all fetched entries.
LastFor(k) ==
    CHOOSE i \in 1..Len(secrets) :
        KeyOf(i) = k /\ \A j \in (i + 1)..Len(secrets) : KeyOf(j) # k

InF(k) == (\E i \in 1..Len(secrets) : KeyOf(i) = k) /\ Fetched(LastFor(k))

FValue(k) == fetches[LastFor(k)].reply.data

\* C8: the returned map holds, for each key of the fetch result F, F's value
\* (replacing the seed's), for each key of the seed S not in F, S's value, and
\* no other key.
C8_MergeOntoSeed ==
    pc = "returned" =>
        \A k \in Names :
            EntryOf(providerMap, k) =
                IF InF(k) THEN Some(FValue(k)) ELSE EntryOf(seedAtMerge, k)

C8_Witness ==
    /\ pc = "returned"
    /\ \E k1, k2 \in Names :
          /\ k1 # k2
          /\ InF(k1) /\ k1 \in DOMAIN seedAtMerge /\ seedAtMerge[k1] # FValue(k1)
          /\ providerMap[k1] = FValue(k1)
          /\ ~InF(k2) /\ k2 \in DOMAIN seedAtMerge
          /\ providerMap[k2] = seedAtMerge[k2]

\* C9: an object element is fetched under nameInSecretManager and its value is
\* stored under nameInConfig, not under nameInSecretManager; a string element
\* is fetched and stored under that string.
C9_ExternalNameAndConfigKey ==
    /\ pc \in {"fetching", "returned"} =>
          \A i \in 1..Len(fetches) :
              fetches[i].status \in {"inflight", "settled"} =>
                  fetches[i].name = IF secrets[i].kind = "string"
                                    THEN secrets[i].name
                                    ELSE secrets[i].nameInSecretManager
    /\ pc = "returned" =>
          \A i \in 1..Len(secrets) :
              /\ (Fetched(i) /\ LastFor(KeyOf(i)) = i)
                    => EntryOf(providerMap, KeyOf(i)) = Some(fetches[i].reply.data)
              /\ (/\ secrets[i].kind = "object"
                  /\ secrets[i].nameInSecretManager \notin DOMAIN seedAtMerge
                  /\ ~\E j \in 1..Len(secrets) :
                        KeyOf(j) = secrets[i].nameInSecretManager /\ Fetched(j))
                    => secrets[i].nameInSecretManager \notin DOMAIN providerMap

C9_Witness ==
    /\ pc = "returned"
    /\ Len(secrets) = 1
    /\ secrets[1].kind = "object"
    /\ fetches[1].name = secrets[1].nameInSecretManager
    /\ Fetched(1)
    /\ DOMAIN providerMap = {secrets[1].nameInConfig}
    /\ providerMap[secrets[1].nameInConfig] = fetches[1].reply.data

\* C10 as stated: no provider is ever produced from an empty input.secrets.
C10_EmptySecretsRejected == ~(pc = "returned" /\ secrets = <<>>)

\* C10 amended: with an empty input.secrets (which only the type forbids) no
\* fetch is issued, no error is raised, and fromSecretManager returns a provider
\* that holds exactly the entries of the seed.
C10_EmptySecretsYieldSeed ==
    /\ (pc \in {"fetching", "returned"} /\ secrets = <<>>) =>
          fetches = <<>> /\ exit = "none"
    /\ (pc = "returned" /\ secrets = <<>>) => providerMap = seedAtMerge

C10_Witness ==
    /\ pc = "returned"
    /\ secrets = <<>>
    /\ opened = 1
    /\ seedAtMerge # EmptyMap
    /\ providerMap = seedAtMerge

\* C11: the secrets-only layer is not built when a requested secret could not
\* be retrieved: fromSecretManager returns for layerGcp only with every
\* element of input.secrets fetched.
C11_LayerGcpFailsOnMissingSecret ==
    (variant = "SecretsOnly" /\ pc = "returned") =>
        \A i \in 1..Len(secrets) : Fetched(i)

\* Two elements of input.secrets ask for the same config key, both were
\* fetched, with different data.
Collision(i, j) ==
    /\ i < j
    /\ KeyOf(i) = KeyOf(j)
    /\ Fetched(i) /\ Fetched(j)
    /\ fetches[i].reply.data # fetches[j].reply.data

\* The element whose fetch settled last.
LastSettled == settleOrder[Len(settleOrder)]

\* C12 as stated: of two fetched elements with the same config key, the map
\* keeps the data of the one whose fetch settled last.
C12_LastSettledWins ==
    pc = "returned" =>
        \A i, j \in 1..Len(secrets) :
            Collision(i, j) =>
                providerMap[KeyOf(i)] = fetches[LastSettled].reply.data

\* C12 amended: of two fetched elements with the same config key, the map
\* keeps the data of the one that comes later in input.secrets, in whatever
\* order the fetches settled.
C12_LaterInListWins ==
    pc = "returned" =>
        \A i, j \in 1..Len(secrets) :
            (Collision(i, j) /\ ~\E n \in (j + 1)..Len(secrets) : KeyOf(n) = KeyOf(j))
                => providerMap[KeyOf(i)] = fetches[j].reply.data

C12_Witness ==
    /\ pc = "returned"
    /\ Len(secrets) = 2
    /\ Collision(1, 2)
    /\ settleOrder = <<2, 1>>
    /\ providerMap[KeyOf(1)] = fetches[2].reply.data

\* C13 as stated: every element of input.secrets that was fetched has its
\* config key in the map, also when other elements share that key.
C13_FetchedKeyPresent ==
    pc = "returned" =>
        \A i \in 1..Len(secrets) : Fetched(i) => MapHas(providerMap, KeyOf(i))

C15_CallsWithinOpenHandle ==
    /\ \A i \in 1..Len(fetches) : fetches[i].request # "none" => opened > 0
    /\ closed > 0 => \A i \in 1..Len(fetches) : fetches[i].request # "outstanding"

\* C16: when the client cannot be opened the build of the layer ends there: no
\* getSecret call was made, no provider is installed, and close was not
\* invoked, as no client was acquired.
C16_OpenFailureAborts ==
    exit = "openFailed" =>
        /\ pc = "openFailed"
        /\ \A i \in 1..Len(fetches) : fetches[i].request = "none"
        /\ settleOrder = <<>>
        /\ ~installed
        /\ providerMap = EmptyMap
        /\ opened = 0
        /\ closed = 0

C16_Witness ==
    /\ exit = "openFailed"
    /\ pc = "openFailed"
    /\ Len(secrets) = 2
    /\ layers = 2

AnswersFrom(l, m) ==
    IF MapHas(m, l.key)
    THEN l.found /\ l.value = m[l.key] /\ l.consulted = {"map"}
    ELSE l.found => variant # "SecretsOnly"

\* C18: while a provider is installed the secret map behind it stays as it
\* was built, and every lookup is answered from it, whatever other layers have
\* written into the default seed since.
C18_BuiltProviderIsFixed ==
    [][(pc = "installed" /\ pc' = "installed") =>
          /\ providerMap' = providerMap
          /\ lastLookup'.key \in Names => AnswersFrom(lastLookup', providerMap)]_vars

C18_Witness ==
    /\ LookedUp
    /\ seedRef = "default"
    /\ MapHas(providerMap, lastLookup.key)
    /\ defaultSeed[lastLookup.key] # providerMap[lastLookup.key]
    /\ lastLookup.value = providerMap[lastLookup.key]

\* C19: getSecret is invoked once for every element of input.secrets and never
\* again: an element whose fiber has started counts one call, whatever the
\* reply, fromSecretManager returns with one call per element, for the
\* element's nameInSecretManager, and an installed provider has no fetch.
C19_OneCallPerElement ==
    /\ \A i \in 1..Len(fetches) :
          fetches[i].calls = IF fetches[i].status = "idle" THEN 0 ELSE 1
    /\ pc = "returned" =>
          /\ Len(fetches) = Len(secrets)
          /\ \A i \in 1..Len(secrets) :
                /\ fetches[i].calls = 1
                /\ fetches[i].name = nameInSecretManager(secrets[i])
    /\ pc = "installed" => fetches = <<>>

\* Both fetches were started and neither has settled.
C19_Witness ==
    /\ pc = "fetching"
    /\ Len(secrets) = 2
    /\ settleOrder = <<>>
    /\ \A i \in 1..2 : fetches[i].status = "inflight" /\ fetches[i].calls = 1

====
